---- MODULE Spec2Model ----
(***************************************************************************)
(* The buy-then-sell script of src/rust/src/main.rs as a state machine.    *)
(*                                                                         *)
(* Fixed-width unsigned integers (u64, U256) are little-endian sequences   *)
(* of 16-bit limbs, so that their arithmetic keeps its width: a u64 is 4   *)
(* limbs, a U256 is 16 limbs.  Environment values of the numeric variables *)
(* are sequences of one-character strings, parsed digit by digit.          *)
(***************************************************************************)
EXTENDS Integers, Sequences, FiniteSets, TLC

\* ------------------------------------------------------------- bounds
\* Largest number of seconds one network-bound await may take.
MaxDelay == 1

\* ---------------------------------------------------------------- state
VARIABLES
    env,             \* the process environment (after .env is merged in)
    cfg,             \* AppConfig
    pc,              \* position of main
    outcome,         \* "running", "ok" (exit 0), "error" (Err), "panic"
    err,             \* the context message of the error, "" when none
    now,             \* unix time in seconds (u64)
    recipient,       \* main's recipient
    deadline,        \* main's deadline (U256)
    router,          \* main's router
    quoted_out,      \* main's quoted_out (U256)
    amount_out_min,  \* main's amount_out_min (U256)
    balance,         \* main's balance (U256)
    calls,           \* the SDK operations issued so far, in order
    sell_at,         \* unix time at which the sell was submitted
    deadline_now     \* the `now` that deadline_u256 read

vars == <<env, cfg, pc, outcome, err, now, recipient, deadline, router,
          quoted_out, amount_out_min, balance, calls, sell_at, deadline_now>>

\* ------------------------------------------------------ limb arithmetic
LimbBase == 2^16
U64Limbs == 4
U256Limbs == 16

Zero(n) == [i \in 1..n |-> 0]

\* The n-limb value of a natural k < 2^31.
FromNat(k, n) ==
    [i \in 1..n |-> IF i = 1 THEN k % LimbBase
                    ELSE IF i = 2 THEN k \div LimbBase
                    ELSE 0]

IsZero(a) == \A i \in 1..Len(a) : a[i] = 0

\* Zero-extension of a to n limbs (U256::from(u64)).
Extend(a, n) == [i \in 1..n |-> IF i <= Len(a) THEN a[i] ELSE 0]

RECURSIVE AddCarry(_, _, _, _)
\* Limbs i.. of a + b with carry c in; the carry out is the last element.
AddCarry(a, b, i, c) ==
    IF i > Len(a) THEN <<c>>
    ELSE LET s == a[i] + b[i] + c
         IN  <<s % LimbBase>> \o AddCarry(a, b, i + 1, s \div LimbBase)

\* a + b on equal widths: v the wrapped sum, c the carry out (0 or 1).
AddN(a, b) ==
    LET r == AddCarry(a, b, 1, 0)
    IN  [v |-> SubSeq(r, 1, Len(a)), c |-> r[Len(a) + 1]]

RECURSIVE MulCarry(_, _, _, _)
MulCarry(a, m, i, c) ==
    IF i > Len(a) THEN <<c>>
    ELSE LET p == a[i] * m + c
         IN  <<p % LimbBase>> \o MulCarry(a, m, i + 1, p \div LimbBase)

\* a * m for a small multiplier m (m <= 10000): v the low limbs, c the
\* part that does not fit the width (0 when the product fits).
MulSmall(a, m) ==
    LET r == MulCarry(a, m, 1, 0)
    IN  [v |-> SubSeq(r, 1, Len(a)), c |-> r[Len(a) + 1]]

RECURSIVE DivRem(_, _, _, _)
\* Long division of limbs i..1 of a by d, remainder r carried in from above.
DivRem(a, d, i, r) ==
    IF i = 0 THEN <<>>
    ELSE LET cur == r * LimbBase + a[i]
         IN  DivRem(a, d, i - 1, cur % d) \o <<cur \div d>>

\* floor(a / d) for a small divisor d (0 < d <= 10000), same width as a.
DivSmall(a, d) == DivRem(a, d, Len(a), 0)

RECURSIVE LeqFrom(_, _, _)
LeqFrom(a, b, i) ==
    IF i = 0 THEN TRUE
    ELSE IF a[i] < b[i] THEN TRUE
    ELSE IF a[i] > b[i] THEN FALSE
    ELSE LeqFrom(a, b, i - 1)

\* a <= b on equal widths.
Leq(a, b) == LeqFrom(a, b, Len(a))

RECURSIVE Pow10Times(_, _)
\* a * 10^k in the width of a: <<product>>, or <<>> when it does not fit.
Pow10Times(a, k) ==
    IF k = 0 THEN <<a>>
    ELSE LET m == MulSmall(a, 10)
         IN  IF m.c # 0 THEN <<>> ELSE Pow10Times(m.v, k - 1)

U256Max == [i \in 1..U256Limbs |-> LimbBase - 1]
U256Zero == Zero(U256Limbs)
U64Max == [i \in 1..U64Limbs |-> LimbBase - 1]

\* ------------------------------------------------------------- parsing
\* Option<T>: <<>> is None, <<x>> is Some(x).
None == <<>>
Some(x) == <<x>>
\* The value of an option, or dflt when it is None.
ValueOr(o, dflt) == IF o = <<>> THEN dflt ELSE o[1]

DigitOf ==
    ("0" :> 0) @@ ("1" :> 1) @@ ("2" :> 2) @@ ("3" :> 3) @@ ("4" :> 4) @@
    ("5" :> 5) @@ ("6" :> 6) @@ ("7" :> 7) @@ ("8" :> 8) @@ ("9" :> 9)

RECURSIVE ParseDigits(_, _, _)
\* Decimal digits i.. of chars accumulated into acc (any width): Some(value),
\* or None on a non-digit or when the value does not fit the width.
ParseDigits(chars, i, acc) ==
    IF i > Len(chars) THEN Some(acc)
    ELSE IF chars[i] \notin DOMAIN DigitOf THEN None
    ELSE LET m == MulSmall(acc, 10)
             a == AddN(m.v, FromNat(DigitOf[chars[i]], Len(acc)))
         IN  IF m.c # 0 \/ a.c # 0 THEN None
             ELSE ParseDigits(chars, i + 1, a.v)

\* str::parse::<u64>(): an optional '+', then one or more decimal digits
\* whose value fits 64 bits.
ParseU64(chars) ==
    LET digits == IF Len(chars) > 0 /\ chars[1] = "+" THEN Tail(chars) ELSE chars
    IN  IF Len(digits) = 0 THEN None
        ELSE ParseDigits(digits, 1, Zero(U64Limbs))

\* Index of the first "." of chars, 0 when there is none.
DotIndex(chars) ==
    IF \E i \in 1..Len(chars) : chars[i] = "."
    THEN CHOOSE i \in 1..Len(chars) :
            chars[i] = "." /\ \A j \in 1..(i - 1) : chars[j] # "."
    ELSE 0

\* parse_units(amount, units) on an unsigned decimal numeral: the first "."
\* is dropped, fraction digits beyond `units` are truncated, and the digits
\* are scaled to `units` decimals.  Some(U256) or None.
ParseUnits(chars, units) ==
    LET di == DotIndex(chars)
        stripped == IF di = 0 THEN chars
                    ELSE SubSeq(chars, 1, di - 1) \o SubSeq(chars, di + 1, Len(chars))
        decLen == IF di = 0 THEN 0 ELSE Len(chars) - di
        kept == IF decLen > units
                THEN SubSeq(stripped, 1, Len(stripped) - (decLen - units))
                ELSE stripped
        n == ParseDigits(kept, 1, U256Zero)
    IN  IF n = None THEN None
        ELSE Pow10Times(n[1], IF decLen > units THEN 0 ELSE units - decLen)

\* The strings that parse as an address, with the address each denotes
\* (the "0x" prefix is optional, so two strings can denote one address).
HexAddress ==
    ("0xT0" :> "addrT0") @@ ("T0" :> "addrT0") @@
    ("0xR1" :> "addrR1") @@ ("R1" :> "addrR1")

\* str::parse::<Address>()
ParseAddress(s) == IF s \in DOMAIN HexAddress THEN Some(HexAddress[s]) ELSE None

\* ------------------------------------------------------- configuration
BASIS == 10000
DefaultSlippageBps == 100
DefaultDeadlineSecs == 600
DefaultSettlementWaitSecs == 30
Decimals == 18
DefaultAmountInMon == <<"0", ".", "1">>

\* RequiredVars without the check of RPC_URL.
RequiredVars_NoRpc == <<"PRIVATE_KEY", "TOKEN_ADDRESS">>

\* The variables whose absence is an error, in the order they are read.
RequiredVars == <<"RPC_URL", "PRIVATE_KEY", "TOKEN_ADDRESS">>

\* The first required variable that is absent from e, "" when none is.
FirstMissing(e) ==
    IF \E i \in 1..Len(RequiredVars) : e[RequiredVars[i]] = None
    THEN RequiredVars[CHOOSE i \in 1..Len(RequiredVars) :
            /\ e[RequiredVars[i]] = None
            /\ \A j \in 1..(i - 1) : e[RequiredVars[j]] # None]
    ELSE ""

\* env::var(..).ok().and_then(|v| v.parse().ok()) for an address.
OptionalAddress(v) == IF v = None THEN None ELSE ParseAddress(v[1])

\* env::var(..).ok().and_then(|v| v.parse().ok()).unwrap_or(dflt) for a u64.
OptionalU64(v, dflt) ==
    IF v = None THEN FromNat(dflt, U64Limbs)
    ELSE ValueOr(ParseU64(v[1]), FromNat(dflt, U64Limbs))

\* The configuration before it is loaded.
NoCfg ==
    [rpc_url |-> "", private_key |-> "", token |-> "", amount_in |-> U256Zero,
     slippage_bps |-> Zero(U64Limbs), recipient |-> None,
     deadline_secs_from_now |-> Zero(U64Limbs),
     settlement_wait_secs |-> Zero(U64Limbs)]

\* AppConfig::from_env: [ok, err, cfg].
FromEnv(e) ==
    LET missing == FirstMissing(e)
        amount == ParseUnits(ValueOr(e.AMOUNT_IN_MON, DefaultAmountInMon), Decimals)
        token == ParseAddress(ValueOr(e.TOKEN_ADDRESS, ""))
        Fail(msg) == [ok |-> FALSE, err |-> msg, cfg |-> NoCfg]
    IN  IF missing # "" THEN Fail(missing \o " missing")
        ELSE IF amount = None THEN Fail("invalid AMOUNT_IN_MON")
        ELSE IF token = None THEN Fail("invalid token")
        ELSE [ok |-> TRUE, err |-> "",
              cfg |-> [rpc_url |-> ValueOr(e.RPC_URL, ""),
                       private_key |-> ValueOr(e.PRIVATE_KEY, ""),
                       token |-> token[1],
                       amount_in |-> amount[1],
                       slippage_bps |-> OptionalU64(e.SLIPPAGE_BPS, DefaultSlippageBps),
                       recipient |-> OptionalAddress(e.RECIPIENT_ADDRESS),
                       deadline_secs_from_now |->
                           OptionalU64(e.DEADLINE_SECS, DefaultDeadlineSecs),
                       settlement_wait_secs |->
                           OptionalU64(e.SETTLEMENT_WAIT_SECS, DefaultSettlementWaitSecs)]]

\* ------------------------------------------------------- pure functions
RECURSIVE SubBorrow(_, _, _, _)
SubBorrow(a, b, i, br) ==
    IF i > Len(a) THEN <<br>>
    ELSE LET d == a[i] - b[i] - br
         IN  IF d < 0 THEN <<d + LimbBase>> \o SubBorrow(a, b, i + 1, 1)
             ELSE <<d>> \o SubBorrow(a, b, i + 1, 0)

\* a - b on equal widths: v the wrapped difference, b the borrow out.
SubN(a, b) ==
    LET r == SubBorrow(a, b, 1, 0)
    IN  [v |-> SubSeq(r, 1, Len(a)), b |-> r[Len(a) + 1]]

\* The natural a value of at most two significant limbs denotes.
ToNat(a) == a[1] + a[2] * LimbBase

\* apply_slippage: amount * (basis - slip) / basis in U256, whose - and *
\* panic on overflow.  [panic, v].
apply_slippage(amount, slippage_bps) ==
    LET basis == FromNat(BASIS, U256Limbs)
        slip == Extend(slippage_bps, U256Limbs)
        diff == SubN(basis, slip)
        prod == MulSmall(amount, ToNat(diff.v))
    IN  IF diff.b # 0 THEN [panic |-> TRUE, v |-> U256Zero]
        ELSE IF prod.c # 0 THEN [panic |-> TRUE, v |-> U256Zero]
        ELSE [panic |-> FALSE, v |-> DivSmall(prod.v, BASIS)]

\* AppConfig::deadline_u256 at clock value t: now + deadline_secs_from_now in
\* u64.  On overflow a build with overflow checks panics and one without
\* wraps: [overflow, v] with v the wrapped sum as a U256.
deadline_u256(c, t) ==
    LET sum == AddN(t, c.deadline_secs_from_now)
    IN  [overflow |-> sum.c # 0, v |-> Extend(sum.v, U256Limbs)]

\* Trade::wallet_address: the address the private key signs for.
WalletOf == ("key1" :> "addrW1")
wallet_address(key) == IF key \in DOMAIN WalletOf THEN WalletOf[key] ELSE "addr0"

\* ResolveRecipient ignoring the configured recipient.
ResolveRecipient_AlwaysWallet(c) == wallet_address(c.private_key)

\* cfg.recipient.unwrap_or_else(|| trade.wallet_address())
ResolveRecipient(c) == ValueOr(c.recipient, wallet_address(c.private_key))

\* BalanceGate that never closes.
BalanceGate_Never(b) == FALSE

\* balance.is_zero(): the gate before the sell.
BalanceGate(b) == IsZero(b)

\* Try that discards the failure and goes on.
Try_Swallow(ok, next, msg) == [pc |-> next, outcome |-> "running", err |-> ""]

\* Try that repeats the step on a failure.
Try_Retry(ok, next, msg) ==
    IF ok THEN [pc |-> next, outcome |-> "running", err |-> ""]
    ELSE [pc |-> pc, outcome |-> "running", err |-> msg]

\* The ? operator on a fallible step: where the run goes on its result.
Try(ok, next, msg) ==
    IF ok THEN [pc |-> next, outcome |-> "running", err |-> ""]
    ELSE [pc |-> "Failed", outcome |-> "error", err |-> msg]

\* ----------------------------------------------------- inputs of a run
Chars100 == <<"1", "0", "0">>
Chars10000 == <<"1", "0", "0", "0", "0">>
Chars10001 == <<"1", "0", "0", "0", "1">>
Chars30 == <<"3", "0">>
Chars60 == <<"6", "0">>
CharsU64Max ==
    <<"1", "8", "4", "4", "6", "7", "4", "4", "0", "7",
      "3", "7", "0", "9", "5", "5", "1", "6", "1", "5">>
CharsBad == <<"1", "x">>

Environments ==
    [RPC_URL : {None, Some("http://rpc")},
     PRIVATE_KEY : {None, Some("key1")},
     TOKEN_ADDRESS : {None, Some("0xT0"), Some("0xT")},
     AMOUNT_IN_MON : {None, Some(<<"2", ".", "5">>), Some(CharsBad)},
     RECIPIENT_ADDRESS : {None, Some("R1"), Some("0xR")},
     SLIPPAGE_BPS : {None, Some(<<"0">>), Some(Chars10000), Some(Chars10001),
                     Some(CharsBad)},
     DEADLINE_SECS : {None, Some(Chars30), Some(CharsU64Max), Some(CharsBad)},
     SETTLEMENT_WAIT_SECS : {None, Some(Chars60), Some(CharsBad)}]

StartTime == FromNat(1762000000, U64Limbs)

TwoTokens == Pow10Times(FromNat(2, U256Limbs), Decimals)[1]
\* 1.98 tokens
Tokens198 == DivSmall(MulSmall(TwoTokens, 9900).v, BASIS)

\* What get_amount_out can answer.
QuotedOuts == {U256Zero, TwoTokens, U256Max}
QuoteResults ==
    {[ok |-> FALSE, router |-> "", out |-> U256Zero]}
    \cup {[ok |-> TRUE, router |-> "router1", out |-> q] : q \in QuotedOuts}

\* What balance_of can answer.
Balances == {U256Zero, Tokens198, FromNat(7, U256Limbs)}
BalanceResults ==
    {[ok |-> FALSE, bal |-> U256Zero]} \cup {[ok |-> TRUE, bal |-> b] : b \in Balances}

\* t + d seconds.
Tick(t, d) == AddN(t, FromNat(d, U64Limbs)).v

\* ------------------------------------------------------ the SDK's calls
Call(op, token, amount_in, aom, to, dl, ok) ==
    [op |-> op, token |-> token, amount_in |-> amount_in, amount_out_min |-> aom,
     to |-> to, deadline |-> dl, ok |-> ok]

\* A call that carries no trade parameters.
PlainCall(op, ok) == Call(op, "", U256Zero, U256Zero, "", U256Zero, ok)

\* trade.get_amount_out(cfg.token, cfg.amount_in, true)
QuoteCall(c, ok) == Call("get_amount_out", c.token, c.amount_in, U256Zero, "", U256Zero, ok)

\* GasEstimationParams::Buy { .. }
GasEstimationParams(c, aom, rcp, dl, ok) ==
    Call("estimate_gas", c.token, c.amount_in, aom, rcp, dl, ok)

\* BuyParams { .. }
BuyParams(c, aom, rcp, dl, ok) == Call("buy", c.token, c.amount_in, aom, rcp, dl, ok)

\* token_helper.balance_of(cfg.token, recipient)
BalanceCall(c, rcp, ok) == Call("balance_of", c.token, U256Zero, U256Zero, rcp, U256Zero, ok)

\* SellParams protected by the configured slippage.
SellParams_WithSlippage(c, bal, rcp, dl, ok) ==
    Call("sell", c.token, bal, apply_slippage(bal, c.slippage_bps).v, rcp, dl, ok)

\* SellParams { amount_in: balance, amount_out_min: U256::zero(), .. }
SellParams(c, bal, rcp, dl, ok) == Call("sell", c.token, bal, U256Zero, rcp, dl, ok)

\* ----------------------------------------------------------------- Init
Init ==
    /\ env \in Environments
    /\ cfg = NoCfg
    /\ pc = "Start"
    /\ outcome = "running"
    /\ err = ""
    /\ now = StartTime
    /\ recipient = ""
    /\ deadline = U256Zero
    /\ router = ""
    /\ quoted_out = U256Zero
    /\ amount_out_min = U256Zero
    /\ balance = U256Zero
    /\ calls = <<>>
    /\ sell_at = Zero(U64Limbs)
    /\ deadline_now = Zero(U64Limbs)

\* pc, outcome and err after a fallible step.
Step(t) == pc' = t.pc /\ outcome' = t.outcome /\ err' = t.err

\* -------------------------------------------------------------- actions
\* let cfg = AppConfig::from_env()?;
LoadConfig ==
    /\ pc = "Start"
    /\ LET r == FromEnv(env)
       IN  /\ cfg' = (IF r.ok THEN r.cfg ELSE cfg)
           /\ Step(Try(r.ok, "ConfigLoaded", r.err))
    /\ UNCHANGED <<env, now, recipient, deadline, router, quoted_out,
                   amount_out_min, balance, calls, sell_at, deadline_now>>

\* Trade::new(..).await.context("failed to initialize Trade client")?
InitClient ==
    /\ pc = "ConfigLoaded"
    /\ \E ok \in BOOLEAN, d \in 0..MaxDelay :
         /\ calls' = Append(calls, PlainCall("Trade::new", ok))
         /\ now' = Tick(now, d)
         /\ Step(Try(ok, "ClientInitialized", "failed to initialize Trade client"))
    /\ UNCHANGED <<env, cfg, recipient, deadline, router, quoted_out,
                   amount_out_min, balance, sell_at, deadline_now>>

\* let recipient = ..; let deadline = cfg.deadline_u256(); println!(..)
\* (format_units of a U256 with 18 decimals does not fail).
Prepare ==
    /\ pc = "ClientInitialized"
    /\ recipient' = ResolveRecipient(cfg)
    /\ deadline_now' = now
    /\ LET dl == deadline_u256(cfg, now)
       IN  \/ /\ ~dl.overflow
              /\ deadline' = dl.v
              /\ pc' = "Prepared"
              /\ UNCHANGED <<outcome, err>>
           \/ /\ dl.overflow    \* no overflow checks: the sum wraps
              /\ deadline' = dl.v
              /\ pc' = "Prepared"
              /\ UNCHANGED <<outcome, err>>
           \/ /\ dl.overflow    \* overflow checks: the addition panics
              /\ pc' = "Failed"
              /\ outcome' = "panic"
              /\ err' = "attempt to add with overflow"
              /\ UNCHANGED deadline
    /\ UNCHANGED <<env, cfg, now, router, quoted_out, amount_out_min, balance,
                   calls, sell_at>>

\* trade.get_amount_out(..).await.context("failed to query quote")?
Quote ==
    /\ pc = "Prepared"
    /\ \E r \in QuoteResults, d \in 0..MaxDelay :
         /\ calls' = Append(calls, QuoteCall(cfg, r.ok))
         /\ now' = Tick(now, d)
         /\ router' = (IF r.ok THEN r.router ELSE router)
         /\ quoted_out' = (IF r.ok THEN r.out ELSE quoted_out)
         /\ Step(Try(r.ok, "Quoted", "failed to query quote"))
    /\ UNCHANGED <<env, cfg, recipient, deadline, amount_out_min, balance, sell_at, deadline_now>>

\* let amount_out_min = apply_slippage(quoted_out, cfg.slippage_bps);
ApplySlippage ==
    /\ pc = "Quoted"
    /\ LET r == apply_slippage(quoted_out, cfg.slippage_bps)
       IN  \/ /\ ~r.panic
              /\ amount_out_min' = r.v
              /\ pc' = "Slipped"
              /\ UNCHANGED <<outcome, err>>
           \/ /\ r.panic
              /\ pc' = "Failed"
              /\ outcome' = "panic"
              /\ err' = "arithmetic operation overflow"
              /\ UNCHANGED amount_out_min
    /\ UNCHANGED <<env, cfg, now, recipient, deadline, router, quoted_out,
                   balance, calls, sell_at, deadline_now>>

\* trade.estimate_gas(..).await.context("failed to estimate buy gas")?
EstimateGas ==
    /\ pc = "Slipped"
    /\ \E ok \in BOOLEAN, d \in 0..MaxDelay :
         /\ calls' = Append(calls,
                GasEstimationParams(cfg, amount_out_min, recipient, deadline, ok))
         /\ now' = Tick(now, d)
         /\ Step(Try(ok, "GasEstimated", "failed to estimate buy gas"))
    /\ UNCHANGED <<env, cfg, recipient, deadline, router, quoted_out,
                   amount_out_min, balance, sell_at, deadline_now>>

\* trade.buy(..).await.context("buy transaction failed")?
Buy ==
    /\ pc = "GasEstimated"
    /\ \E ok \in BOOLEAN, d \in 0..MaxDelay :
         /\ calls' = Append(calls, BuyParams(cfg, amount_out_min, recipient, deadline, ok))
         /\ now' = Tick(now, d)
         /\ Step(Try(ok, "Bought", "buy transaction failed"))
    /\ UNCHANGED <<env, cfg, recipient, deadline, router, quoted_out,
                   amount_out_min, balance, sell_at, deadline_now>>

\* tokio::time::sleep(Duration::from_secs(cfg.settlement_wait_secs)).await
Wait ==
    /\ pc = "Bought"
    /\ \E d \in 0..MaxDelay :
         now' = Tick(AddN(now, cfg.settlement_wait_secs).v, d)
    /\ calls' = Append(calls, PlainCall("sleep", TRUE))
    /\ pc' = "Waited"
    /\ UNCHANGED <<env, cfg, outcome, err, recipient, deadline, router, quoted_out,
                   amount_out_min, balance, sell_at, deadline_now>>

\* TokenHelper::new(..).await?  (the error is passed on without a context)
NewTokenHelper ==
    /\ pc = "Waited"
    /\ \E ok \in BOOLEAN, d \in 0..MaxDelay :
         /\ calls' = Append(calls, PlainCall("TokenHelper::new", ok))
         /\ now' = Tick(now, d)
         /\ Step(Try(ok, "HelperReady", "TokenHelper::new"))
    /\ UNCHANGED <<env, cfg, recipient, deadline, router, quoted_out,
                   amount_out_min, balance, sell_at, deadline_now>>

\* token_helper.balance_of(..).await.context("failed to fetch wallet balance")?
BalanceOf ==
    /\ pc = "HelperReady"
    /\ \E r \in BalanceResults, d \in 0..MaxDelay :
         /\ calls' = Append(calls, BalanceCall(cfg, recipient, r.ok))
         /\ now' = Tick(now, d)
         /\ balance' = (IF r.ok THEN r.bal ELSE balance)
         /\ Step(Try(r.ok, "BalanceFetched", "failed to fetch wallet balance"))
    /\ UNCHANGED <<env, cfg, recipient, deadline, router, quoted_out,
                   amount_out_min, sell_at, deadline_now>>

\* if balance.is_zero() { return Err(anyhow!("no balance available to sell")); }
CheckBalance ==
    /\ pc = "BalanceFetched"
    /\ Step(Try(~BalanceGate(balance), "BalanceChecked", "no balance available to sell"))
    /\ UNCHANGED <<env, cfg, now, recipient, deadline, router, quoted_out,
                   amount_out_min, balance, calls, sell_at, deadline_now>>

\* trade.sell(..).await.context("sell transaction failed")?
Sell ==
    /\ pc = "BalanceChecked"
    /\ \E ok \in BOOLEAN, d \in 0..MaxDelay :
         /\ calls' = Append(calls, SellParams(cfg, balance, recipient, deadline, ok))
         /\ sell_at' = now
         /\ now' = Tick(now, d)
         /\ Step(Try(ok, "Sold", "sell transaction failed"))
    /\ UNCHANGED <<env, cfg, recipient, deadline, router, quoted_out,
                   amount_out_min, balance, deadline_now>>

\* println!("Sell submitted: ..."); Ok(())
Finish ==
    /\ pc = "Sold"
    /\ pc' = "Done"
    /\ outcome' = "ok"
    /\ UNCHANGED <<env, cfg, err, now, recipient, deadline, router, quoted_out,
                   amount_out_min, balance, calls, sell_at, deadline_now>>

Next ==
    \/ LoadConfig
    \/ InitClient
    \/ Prepare
    \/ Quote
    \/ ApplySlippage
    \/ EstimateGas
    \/ Buy
    \/ Wait
    \/ NewTokenHelper
    \/ BalanceOf
    \/ CheckBalance
    \/ Sell
    \/ Finish

Spec == Init /\ [][Next]_vars

\* ------------------------------------------- apply_slippage on its own
\* Inputs of apply_slippage around the edges of the 256-bit range.
CharsOf ==
    (0 :> <<"0">>) @@ (1 :> <<"1">>) @@ (100 :> Chars100) @@
    (5000 :> <<"5", "0", "0", "0">>) @@ (9999 :> <<"9", "9", "9", "9">>) @@
    (10000 :> Chars10000) @@ (10001 :> Chars10001)
SlipBps == DOMAIN CharsOf
MaxOverBasis == DivSmall(U256Max, BASIS)
SlipAmounts ==
    {U256Zero, FromNat(1, U256Limbs), FromNat(3, U256Limbs),
     FromNat(9999, U256Limbs), FromNat(10000, U256Limbs),
     FromNat(1000000, U256Limbs), TwoTokens, MaxOverBasis,
     AddN(MaxOverBasis, FromNat(1, U256Limbs)).v,
     [i \in 1..U256Limbs |-> IF i = U256Limbs THEN LimbBase \div 2 ELSE 0],
     U256Max}

\* The environment of the runs that reach the quote with slippage s.
SlipEnv(s) ==
    [RPC_URL |-> Some("http://rpc"), PRIVATE_KEY |-> Some("key1"),
     TOKEN_ADDRESS |-> Some("0xT0"), AMOUNT_IN_MON |-> None,
     RECIPIENT_ADDRESS |-> None, SLIPPAGE_BPS |-> Some(CharsOf[s]),
     DEADLINE_SECS |-> None, SETTLEMENT_WAIT_SECS |-> None]

\* The states of main right after a successful quote.
SlipInit ==
    \E s \in SlipBps, q \in SlipAmounts :
        /\ env = SlipEnv(s)
        /\ cfg = FromEnv(env).cfg
        /\ pc = "Quoted"
        /\ outcome = "running"
        /\ err = ""
        /\ now = StartTime
        /\ recipient = ResolveRecipient(cfg)
        /\ deadline = deadline_u256(cfg, StartTime).v
        /\ deadline_now = StartTime
        /\ router = "router1"
        /\ quoted_out = q
        /\ amount_out_min = U256Zero
        /\ balance = U256Zero
        /\ calls = <<PlainCall("Trade::new", TRUE), QuoteCall(cfg, TRUE)>>
        /\ sell_at = Zero(U64Limbs)

SlipNext == ApplySlippage

SlipSpec == SlipInit /\ [][SlipNext]_vars

\* floor(q * (10000 - s) / 10000) over the integers: the product is kept in
\* one limb more than a U256, so it never overflows.
FloorFormula(q, s) ==
    LET wide == MulCarry(q, BASIS - s, 1, 0)
    IN  SubSeq(DivSmall(wide, BASIS), 1, U256Limbs)

\* --------------------------------------------------------------- claims
Issued(op) == \E i \in 1..Len(calls) : calls[i].op = op
Succeeded(op) == \E i \in 1..Len(calls) : calls[i].op = op /\ calls[i].ok
ConfigFailed == pc \in {"Start", "Failed"} /\ calls = <<>>
                /\ (pc = "Failed" => outcome = "error")
IsSetButNot(v, parsed) == v # None /\ parsed = None

\* C1: once the balance query has answered zero, no sell is ever issued and
\* the run ends with the error "no balance available to sell".
C1_ZeroBalanceAborts ==
    (Succeeded("balance_of") /\ IsZero(balance)) =>
        /\ ~Issued("sell")
        /\ pc \in {"BalanceFetched", "Failed"}
        /\ outcome # "ok"
        /\ pc = "Failed" =>
             outcome = "error" /\ err = "no balance available to sell"

C1_Witness ==
    /\ Succeeded("balance_of")
    /\ IsZero(balance)
    /\ pc = "Failed"
    /\ err = "no balance available to sell"
    /\ Succeeded("buy")

\* C2: for every quoted amount and every slippage of at most 10000 bps,
\* apply_slippage returns floor(Q * (10000 - S) / 10000).
C2_SlippageIsFloor ==
    (pc # "Quoted" /\ Leq(cfg.slippage_bps, FromNat(BASIS, U64Limbs))) =>
        /\ pc = "Slipped"
        /\ amount_out_min = FloorFormula(quoted_out, ToNat(cfg.slippage_bps))

\* C3: with RPC_URL, PRIVATE_KEY or TOKEN_ADDRESS absent, configuration
\* loading fails and no network operation is ever attempted.
C3_MissingRequiredFails ==
    (env.RPC_URL = None \/ env.PRIVATE_KEY = None \/ env.TOKEN_ADDRESS = None) =>
        /\ ConfigFailed
        /\ pc = "Failed" =>
             err \in {"RPC_URL missing", "PRIVATE_KEY missing", "TOKEN_ADDRESS missing"}

C3_Witness ==
    /\ env.RPC_URL # None
    /\ env.PRIVATE_KEY # None
    /\ env.TOKEN_ADDRESS = None
    /\ pc = "Failed"
    /\ err = "TOKEN_ADDRESS missing"

\* C4: configuration loading fails when AMOUNT_IN_MON is set but no decimal
\* numeral, when TOKEN_ADDRESS is no address, or when RECIPIENT_ADDRESS is
\* set but no address.
C4_InvalidValueFails ==
    (\/ IsSetButNot(env.AMOUNT_IN_MON, ParseUnits(ValueOr(env.AMOUNT_IN_MON, <<>>), Decimals))
     \/ IsSetButNot(env.TOKEN_ADDRESS, ParseAddress(ValueOr(env.TOKEN_ADDRESS, "")))
     \/ IsSetButNot(env.RECIPIENT_ADDRESS, ParseAddress(ValueOr(env.RECIPIENT_ADDRESS, ""))))
    => ConfigFailed

\* C5: configuration loading fails when SLIPPAGE_BPS, DEADLINE_SECS or
\* SETTLEMENT_WAIT_SECS is set but does not parse as an unsigned integer.
C5_UnparsableNumberFails ==
    (\/ IsSetButNot(env.SLIPPAGE_BPS, ParseU64(ValueOr(env.SLIPPAGE_BPS, <<>>)))
     \/ IsSetButNot(env.DEADLINE_SECS, ParseU64(ValueOr(env.DEADLINE_SECS, <<>>)))
     \/ IsSetButNot(env.SETTLEMENT_WAIT_SECS, ParseU64(ValueOr(env.SETTLEMENT_WAIT_SECS, <<>>))))
    => ConfigFailed

\* The positions of main at which recipient and deadline are bound.
AfterPrepare ==
    {"Prepared", "Quoted", "Slipped", "GasEstimated", "Bought", "Waited",
     "HelperReady", "BalanceFetched", "BalanceChecked", "Sold", "Done"}

\* The operations main issues, in program order.
OpOrder ==
    <<"Trade::new", "get_amount_out", "estimate_gas", "buy", "sleep",
      "TokenHelper::new", "balance_of", "sell">>

\* C6: with RECIPIENT_ADDRESS unset the recipient is the signer's address,
\* with a valid RECIPIENT_ADDRESS it is that address, and the gas estimate,
\* the buy, the balance query and the sell all use it.
C6_RecipientResolved ==
    LET v == env.RECIPIENT_ADDRESS
        parsed == ParseAddress(ValueOr(v, ""))
        expected == IF v = None THEN wallet_address(ValueOr(env.PRIVATE_KEY, ""))
                    ELSE ValueOr(parsed, "")
    IN  (v = None \/ parsed # None) =>
            /\ pc \in AfterPrepare => recipient = expected
            /\ \A i \in 1..Len(calls) :
                 calls[i].op \in {"estimate_gas", "buy", "balance_of", "sell"}
                    => calls[i].to = expected

C6_Witness ==
    /\ env.RECIPIENT_ADDRESS = None
    /\ Succeeded("sell")
    /\ calls[Len(calls)].to = "addrW1"

\* C7: every sell carries the whole, non-zero balance the balance query
\* returned as amount_in and zero as amount_out_min.
C7_SellsWholeBalance ==
    \A i \in 1..Len(calls) :
        calls[i].op = "sell" =>
            /\ Succeeded("balance_of")
            /\ calls[i].amount_in = balance
            /\ ~IsZero(calls[i].amount_in)
            /\ calls[i].amount_out_min = U256Zero

C7_Witness ==
    /\ Issued("sell")
    /\ ~IsZero(cfg.slippage_bps)
    /\ ~IsZero(amount_out_min)
    /\ amount_out_min # balance

\* C8: the run ends with exit code zero only after a successful sell, and
\* a failure of any stage ends it with an error.
C8_ExitZeroOnlyAfterSell ==
    /\ outcome = "ok" =>
         /\ pc = "Done"
         /\ Len(calls) > 0
         /\ calls[Len(calls)].op = "sell"
         /\ calls[Len(calls)].ok
    /\ (\E i \in 1..Len(calls) : ~calls[i].ok) => (pc = "Failed" /\ outcome = "error")
    /\ pc = "ConfigLoaded" => FromEnv(env).ok
    /\ (pc # "Start" /\ cfg = NoCfg) => (pc = "Failed" /\ outcome = "error")
    /\ (Succeeded("balance_of") /\ IsZero(balance) /\ pc # "BalanceFetched")
         => (pc = "Failed" /\ outcome = "error")
    /\ pc = "Failed" => outcome \in {"error", "panic"}

C8_Witness ==
    /\ pc = "Failed"
    /\ outcome = "error"
    /\ Succeeded("buy")
    /\ ~Issued("sell")

\* C9: the operations issued are a prefix of program order (each at most
\* once, none skipped, none repeated), only the last one can have failed,
\* and a sell follows a successful buy, the wait and a successful balance
\* query.
C9_SequentialNoRetry ==
    /\ Len(calls) <= Len(OpOrder)
    /\ \A i \in 1..Len(calls) : calls[i].op = OpOrder[i]
    /\ \A i \in 1..(Len(calls) - 1) : calls[i].ok
    /\ Issued("sell") =>
         /\ Succeeded("buy")
         /\ Issued("sleep")
         /\ Succeeded("balance_of")
    /\ outcome # "running" => pc \in {"Failed", "Done"}

C9_Witness ==
    /\ pc = "Done"
    /\ Len(calls) = Len(OpOrder)

\* The deadline every trade call of the run carries is d.
TradeCallsCarry(d) ==
    \A i \in 1..Len(calls) :
        calls[i].op \in {"estimate_gas", "buy", "sell"} => calls[i].deadline = d

\* The sell, once issued, was submitted at or after its deadline.
SellPastDeadline ==
    \A i \in 1..Len(calls) :
        calls[i].op = "sell" => Leq(calls[i].deadline, Extend(sell_at, U256Limbs))

\* C10: the deadline is unix time + DEADLINE_SECS, computed once; the gas
\* estimate, the buy and the sell carry that value, and the sell's deadline
\* has passed whenever SETTLEMENT_WAIT_SECS >= DEADLINE_SECS.
C10_DeadlineIsNowPlusOffset ==
    LET exact == Extend(AddCarry(deadline_now, cfg.deadline_secs_from_now, 1, 0),
                        U256Limbs)
    IN  /\ pc \in AfterPrepare => deadline = exact
        /\ TradeCallsCarry(exact)
        /\ Leq(cfg.deadline_secs_from_now, cfg.settlement_wait_secs) => SellPastDeadline

\* What holds of the deadline in 64-bit arithmetic: it is the u64 sum
\* (wrapped when it overflows), it is the one value all trade calls carry,
\* and the sell's deadline has passed whenever the wait is no shorter.
DeadlineFixedModulo ==
    /\ pc \in AfterPrepare =>
         deadline = Extend(AddN(deadline_now, cfg.deadline_secs_from_now).v, U256Limbs)
    /\ TradeCallsCarry(deadline)
    /\ Leq(cfg.deadline_secs_from_now, cfg.settlement_wait_secs) => SellPastDeadline

\* apply_slippage agrees with the floor formula whenever it returns.
SlippageIsFloorUnlessPanic ==
    pc = "Slipped" =>
        amount_out_min = FloorFormula(quoted_out, ToNat(cfg.slippage_bps))

====
